---- MODULE Spec2Model ----
(***************************************************************************)
(* A model of biocloudcentral/amazon/launch.py: the four provisioning      *)
(* operations create_iam_user, create_cm_security_group, create_key_pair   *)
(* and run_instance, run one at a time against a cloud provider.           *)
(*                                                                         *)
(* The provider is the environment.  It keeps what it is asked to keep and *)
(* enforces nothing but the access-key quota: it would store a second      *)
(* group of the same name or a second copy of a rule, so that the absence  *)
(* of duplicates is the doing of the operations' own existence checks.     *)
(* Any provider call may raise a provider error; the calls that raise are  *)
(* an input F of each operation (a set of calls, as they appear in the     *)
(* call log).                                                              *)
(*                                                                         *)
(* boto gives a security group a list of rules (IPPermissions), each with  *)
(* a list of grants; the model keeps one record per (rule, grant).         *)
(***************************************************************************)
EXTENDS Integers, Sequences, FiniteSets, TLC

VARIABLES
    iam,                 \* the provider's IAM side: groups, policies, users, members, keys
    secgroups,           \* the provider's security groups, in listing order
    keypairs,            \* the provider's key pairs (names), in listing order
    user_provided_data,  \* the caller's property bag as the last run_instance left it
    last,                \* the last operation: arguments, outcome, result, call log
    hist                 \* the run of consecutive calls of the same operation and name

vars == <<iam, secgroups, keypairs, user_provided_data, last, hist>>

------------------------------------------------------------------------------
(* Bounds *)

\* provider calls that raise a provider error within one operation
MaxFaults == 1
\* consecutive calls of one operation that hist counts (it saturates here)
MaxCalls == 3

------------------------------------------------------------------------------
(* Values *)

None == "None"

Min(a, b) == IF a < b THEN a ELSE b

Range(s) == {s[i] : i \in DOMAIN s}

IsInjective(s) == \A i, j \in DOMAIN s : s[i] = s[j] => i = j

\* no provider call raises, or one of `points` does
SingleFaults(points) == {{}} \cup {{p} : p \in points}

\* the number of entries of a call log that are calls of `what`
RECURSIVE CountCalls(_, _)
CountCalls(calls, what) ==
    IF calls = <<>> THEN 0
    ELSE (IF Head(calls)[1] = what THEN 1 ELSE 0) + CountCalls(Tail(calls), what)

\* the provider calls of the log that raised
Raised(calls, F) == {calls[i] : i \in DOMAIN calls} \cap F

------------------------------------------------------------------------------
(* Names the operations are called with *)

GroupNameDefault == "BioCloudCentral"
UserNameDefault == "cloudman"
SgNameDefault == "CloudMan"
KeyNameDefault == "cloudman_key_pair"

GroupNames == {GroupNameDefault}
UserNames == {UserNameDefault, "galaxy"}
SgNames == {SgNameDefault, "Other"}
KeyNames == {KeyNameDefault, "k2", "k3"}

------------------------------------------------------------------------------
(* create_cm_security_group, rule_exists *)

CidrAll == "0.0.0.0/0"

ports == << <<"80", "80">>, <<"20", "21">>, <<"22", "22">>,
            <<"30000", "30100">>, <<"42284", "42284">> >>

\* the rule cmsg.authorize(ip_protocol='tcp', from_port, to_port, cidr_ip) adds
PortRule(port) ==
    [ip_protocol |-> "tcp", from_port |-> port[1], to_port |-> port[2],
     cidr_ip |-> CidrAll, name |-> None]

\* the rule cmsg.authorize(src_group=cmsg) adds: no protocol, no ports, one
\* grant that names the group
GroupRule(sg_name) ==
    [ip_protocol |-> None, from_port |-> None, to_port |-> None,
     cidr_ip |-> None, name |-> sg_name]

\* A faulty variant of rule_exists: the grants of the rule are not looked at.
rule_exists_any_source(rules, from_port, to_port, ip_protocol, cidr_ip) ==
    \E i \in DOMAIN rules :
        /\ rules[i].ip_protocol = ip_protocol
        /\ rules[i].from_port = from_port
        /\ rules[i].to_port = to_port

rule_exists(rules, from_port, to_port, ip_protocol, cidr_ip) ==
    \E i \in DOMAIN rules :
        /\ rules[i].ip_protocol = ip_protocol
        /\ rules[i].from_port = from_port
        /\ rules[i].to_port = to_port
        /\ rules[i].cidr_ip = cidr_ip

\* A faulty variant of g_rule_exists: the flag is never set.
g_rule_exists_never(rules, sg_name) == FALSE

\* the flag the loop over cmsg.rules and their grants computes
g_rule_exists(rules, sg_name) ==
    \E i \in DOMAIN rules : rules[i].name = sg_name

\* the first security group of the listing with the name, 0 if there is none
FindSg(sgs, sg_name) ==
    IF \E i \in DOMAIN sgs : sgs[i].name = sg_name
    THEN CHOOSE i \in DOMAIN sgs :
            /\ sgs[i].name = sg_name
            /\ \A j \in DOMAIN sgs : sgs[j].name = sg_name => i <= j
    ELSE 0

CallListSg == <<"get_all_security_groups">>
CallCreateSg(sg_name) == <<"create_security_group", sg_name>>
CallRuleExists(port) == <<"rule_exists", port[1], port[2]>>
CallAuthorizePort(port) == <<"authorize", "tcp", port[1], port[2], CidrAll>>
CallAuthorizeGroup(sg_name) == <<"authorize", "src_group", sg_name>>

AuthorizePoints(sg_name) ==
    {CallAuthorizeGroup(sg_name)} \cup {CallAuthorizePort(ports[k]) : k \in DOMAIN ports}

SgFaultPoints(sg_name) ==
    {CallListSg, CallCreateSg(sg_name)} \cup AuthorizePoints(sg_name)

\* The provider calls that raise in one call of create_cm_security_group: the
\* listing or the creation (either ends the call), or at most MaxFaults of
\* the authorize calls (each is caught, and the call goes on).
SgFaults(sg_name) ==
    SingleFaults({CallListSg, CallCreateSg(sg_name)}) \cup
    {F \in SUBSET AuthorizePoints(sg_name) : Cardinality(F) <= MaxFaults}

\* A faulty variant of AuthorizePorts: the try encloses the loop, so the first provider
\* error ends it.
RECURSIVE AuthorizePortsAbort(_, _, _)
AuthorizePortsAbort(st, k, F) ==
    IF k > Len(ports) THEN st
    ELSE LET port == ports[k]
             chk == CallRuleExists(port)
             call == CallAuthorizePort(port)
         IN IF rule_exists(st.rules, port[1], port[2], "tcp", CidrAll)
            THEN AuthorizePortsAbort([st EXCEPT !.calls = Append(@, chk)], k + 1, F)
            ELSE IF call \in F
            THEN [st EXCEPT !.calls = @ \o <<chk, call>>]
            ELSE AuthorizePortsAbort(
                    [rules |-> Append(st.rules, PortRule(port)),
                     calls |-> st.calls \o <<chk, call>>], k + 1, F)

\* The loop over ports, from the k-th port on.  st.rules is cmsg.rules (the
\* provider's rules of the group, which a successful authorize extends),
\* st.calls the call log.
RECURSIVE AuthorizePorts(_, _, _)
AuthorizePorts(st, k, F) ==
    IF k > Len(ports) THEN st
    ELSE LET port == ports[k]
             chk == CallRuleExists(port)
             call == CallAuthorizePort(port)
         IN AuthorizePorts(
                IF rule_exists(st.rules, port[1], port[2], "tcp", CidrAll)
                THEN [st EXCEPT !.calls = Append(@, chk)]
                ELSE IF call \in F
                THEN [st EXCEPT !.calls = @ \o <<chk, call>>]
                ELSE [rules |-> Append(st.rules, PortRule(port)),
                      calls |-> st.calls \o <<chk, call>>], k + 1, F)

\* The rule that allows communication between instances of the group.
AuthorizeGroup(st, sg_name, F) ==
    IF g_rule_exists(st.rules, sg_name) THEN st
    ELSE IF CallAuthorizeGroup(sg_name) \in F
    THEN [st EXCEPT !.calls = Append(@, CallAuthorizeGroup(sg_name))]
    ELSE [rules |-> Append(st.rules, GroupRule(sg_name)),
          calls |-> Append(st.calls, CallAuthorizeGroup(sg_name))]

\* A faulty variant of create_cm_security_group: the listing is not searched, a group is
\* always created.
create_cm_security_group_always(sgs, sg_name, F) ==
    IF CallListSg \in F \/ CallCreateSg(sg_name) \in F
    THEN [outcome |-> "raised", result |-> None, secgroups |-> sgs,
          calls |-> <<CallListSg>>]
    ELSE LET st == AuthorizeGroup(
                      AuthorizePorts([rules |-> <<>>,
                                      calls |-> <<CallListSg, CallCreateSg(sg_name)>>],
                                     1, F),
                      sg_name, F)
         IN [outcome |-> "returned", result |-> sg_name,
             secgroups |-> Append(sgs, [name |-> sg_name, rules |-> st.rules]),
             calls |-> st.calls]

\* The whole of create_cm_security_group on the provider's groups sgs: what it
\* returns or that it raised, the provider's groups after it, and its call
\* log.  The listing and the creation are outside any try.
create_cm_security_group(sgs, sg_name, F) ==
    IF CallListSg \in F
    THEN [outcome |-> "raised", result |-> None, secgroups |-> sgs,
          calls |-> <<CallListSg>>]
    ELSE LET idx == FindSg(sgs, sg_name)
         IN IF idx = 0 /\ CallCreateSg(sg_name) \in F
            THEN [outcome |-> "raised", result |-> None, secgroups |-> sgs,
                  calls |-> <<CallListSg, CallCreateSg(sg_name)>>]
            ELSE LET sgs1 == IF idx = 0
                             THEN Append(sgs, [name |-> sg_name, rules |-> <<>>])
                             ELSE sgs
                     i == IF idx = 0 THEN Len(sgs1) ELSE idx
                     c0 == IF idx = 0 THEN <<CallListSg, CallCreateSg(sg_name)>>
                           ELSE <<CallListSg>>
                     st == AuthorizeGroup(
                              AuthorizePorts([rules |-> sgs1[i].rules, calls |-> c0],
                                             1, F),
                              sgs1[i].name, F)
                 IN [outcome |-> "returned", result |-> sgs1[i].name,
                     secgroups |-> [sgs1 EXCEPT ![i].rules = st.rules],
                     calls |-> st.calls]

\* the rules of the first group of the name, <<>> if there is none
RulesOf(sgs, sg_name) ==
    IF FindSg(sgs, sg_name) = 0 THEN <<>> ELSE sgs[FindSg(sgs, sg_name)].rules

------------------------------------------------------------------------------
(* create_key_pair *)

CallListKp == <<"get_all_key_pairs">>
CallCreateKp(key_name) == <<"create_key_pair", key_name>>

KpFaultPoints(key_name) == {CallListKp, CallCreateKp(key_name)}

\* A faulty variant of create_key_pair: no return on a name match, the key pair is
\* created again.
create_key_pair_again(kps, key_name, F) ==
    IF CallListKp \in F
    THEN [outcome |-> "raised", result |-> None, keypairs |-> kps,
          calls |-> <<CallListKp>>]
    ELSE IF CallCreateKp(key_name) \in F
    THEN [outcome |-> "returned", result |-> None, keypairs |-> kps,
          calls |-> <<CallListKp, CallCreateKp(key_name)>>]
    ELSE [outcome |-> "returned", result |-> key_name,
          keypairs |-> Append(kps, key_name),
          calls |-> <<CallListKp, CallCreateKp(key_name)>>]

\* The whole of create_key_pair.  The listing is outside the try.
create_key_pair(kps, key_name, F) ==
    IF CallListKp \in F
    THEN [outcome |-> "raised", result |-> None, keypairs |-> kps,
          calls |-> <<CallListKp>>]
    ELSE IF \E i \in DOMAIN kps : kps[i] = key_name
    THEN [outcome |-> "returned", result |-> key_name, keypairs |-> kps,
          calls |-> <<CallListKp>>]
    ELSE IF CallCreateKp(key_name) \in F
    THEN [outcome |-> "returned", result |-> None, keypairs |-> kps,
          calls |-> <<CallListKp, CallCreateKp(key_name)>>]
    ELSE [outcome |-> "returned", result |-> key_name,
          keypairs |-> Append(kps, key_name),
          calls |-> <<CallListKp, CallCreateKp(key_name)>>]

------------------------------------------------------------------------------
(* create_iam_user *)

\* access keys a user may hold: "only two sets of those are allowed per user"
KeyLimit == 2

CM_POLICY == "CM_POLICY"

IamEmpty ==
    [groups |-> <<>>, policies |-> {}, users |-> <<>>, members |-> {},
     keys |-> [u \in UserNames |-> 0]]

CallListGroups == <<"get_all_groups">>
CallCreateGroup(group_name) == <<"create_group", group_name>>
CallPutPolicy(group_name) ==
    <<"put_group_policy", group_name, group_name \o "Policy", CM_POLICY>>
CallListUsers == <<"get_all_users">>
CallCreateUser(user_name) == <<"create_user", user_name>>
CallAddUser(group_name, user_name) == <<"add_user_to_group", group_name, user_name>>
CallCreateKey(user_name) == <<"create_access_key", user_name>>

IamFaultPoints(group_name, user_name) ==
    {CallListGroups, CallCreateGroup(group_name), CallPutPolicy(group_name),
     CallListUsers, CallCreateUser(user_name), CallAddUser(group_name, user_name),
     CallCreateKey(user_name)}

\* One provider call inside the try block: skipped once an exception is
\* under way; it raises when it is in F or when the provider refuses it.
IamCall(st, call, F, refused, after) ==
    IF st.exc THEN st
    ELSE [iam |-> IF call \in F \/ refused THEN st.iam ELSE after,
          calls |-> Append(st.calls, call),
          exc |-> call \in F \/ refused]

\* the key pair create_access_key hands out for the n-th key of the user
AccessKeyId(user_name, n) == "AKID-" \o user_name \o "-" \o ToString(n)
SecretAccessKey(user_name, n) == "SECRET-" \o user_name \o "-" \o ToString(n)

\* A faulty variant of create_iam_user: the provider's refusal of a third key is not
\* noticed, the call hands out credentials all the same.
create_iam_user_noquota(i0, group_name, user_name, F) ==
    LET n == i0.keys[user_name] + 1
    IN [outcome |-> "returned",
        result |-> <<AccessKeyId(user_name, n), SecretAccessKey(user_name, n)>>,
        iam |-> [i0 EXCEPT !.keys[user_name] = Min(n, KeyLimit)],
        calls |-> <<CallCreateKey(user_name)>>]

\* The whole of create_iam_user: every provider call is inside one try, and
\* an exception leaves access_key and secret_key None.
create_iam_user(i0, group_name, user_name, F) ==
    LET s0 == [iam |-> i0, calls |-> <<>>, exc |-> FALSE]
        s1 == IamCall(s0, CallListGroups, F, FALSE, s0.iam)
        has_grp == \E i \in DOMAIN i0.groups : i0.groups[i] = group_name
        s2 == IF has_grp THEN s1
              ELSE IamCall(s1, CallCreateGroup(group_name), F, FALSE,
                           [s1.iam EXCEPT !.groups = Append(@, group_name)])
        s3 == IamCall(s2, CallPutPolicy(group_name), F, FALSE,
                      [s2.iam EXCEPT !.policies =
                          @ \cup {<<group_name, group_name \o "Policy", CM_POLICY>>}])
        s4 == IamCall(s3, CallListUsers, F, FALSE, s3.iam)
        has_usr == \E i \in DOMAIN i0.users : i0.users[i] = user_name
        s5 == IF has_usr THEN s4
              ELSE IamCall(s4, CallCreateUser(user_name), F, FALSE,
                           [s4.iam EXCEPT !.users = Append(@, user_name)])
        s6 == IamCall(s5, CallAddUser(group_name, user_name), F, FALSE,
                      [s5.iam EXCEPT !.members = @ \cup {<<group_name, user_name>>}])
        n == i0.keys[user_name] + 1
        s7 == IamCall(s6, CallCreateKey(user_name), F, n > KeyLimit,
                      [s6.iam EXCEPT !.keys[user_name] = n])
    IN [outcome |-> "returned",
        result |-> IF s7.exc THEN <<None, None>>
                   ELSE <<AccessKeyId(user_name, n), SecretAccessKey(user_name, n)>>,
        iam |-> s7.iam,
        calls |-> s7.calls]

------------------------------------------------------------------------------
(* run_instance *)

InstanceTypeKey == "instance_type"

BagKeys == {InstanceTypeKey, "cluster_name", "password"}

\* the entries a bag may hold
BagEntries ==
    {<<InstanceTypeKey, "m1.large">>, <<InstanceTypeKey, "m1.small">>,
     <<"cluster_name", "galaxy">>, <<"password", "secret">>}

\* A property bag: its entries <<key, value>> in the order they were inserted,
\* no key twice.
Bags ==
    {b \in UNION {[1..n -> BagEntries] : n \in 0..Cardinality(BagKeys)} :
        \A i, j \in DOMAIN b : b[i][1] = b[j][1] => i = j}

HasKey(bag, key) == \E i \in DOMAIN bag : bag[i][1] = key

\* bag[key]
Lookup(bag, key) == bag[CHOOSE i \in DOMAIN bag : bag[i][1] = key][2]

\* A faulty variant of Del: nothing is removed.
DelNothing(bag, key) == bag

\* del bag[key]
Del(bag, key) == SelectSeq(bag, LAMBDA e : e[1] # key)

\* the orders in which iteritems() may hand out the entries of a bag: a
\* Python 2 dict iterates in the order of its hash table, which the order of
\* insertion does not decide
IterOrders(bag) ==
    {p \in [DOMAIN bag -> DOMAIN bag] : \A i, j \in DOMAIN bag : p[i] = p[j] => i = j}

\* '%s: %s' % (key, value)
FormatEntry(e) == e[1] \o ": " \o e[2]

\* "\n".join(lines)
RECURSIVE JoinLines(_)
JoinLines(lines) ==
    IF lines = <<>> THEN ""
    ELSE IF Len(lines) = 1 THEN lines[1]
    ELSE lines[1] \o "\n" \o JoinLines(Tail(lines))

\* What run_instances does: it raises a provider error, or hands back a
\* reservation, with an instance or with none.
Raises == "EC2ResponseError"
ReservationFull == "Reservation[i-1]"
ReservationEmpty == "Reservation[]"
RunOutcomes == {Raises, ReservationFull, ReservationEmpty}

\* rs.instances
instances(rs) == IF rs = ReservationFull THEN <<"i-1">> ELSE <<>>

CallRunInstances(instance_type, ud) == <<"run_instances", instance_type, ud>>

\* The whole of run_instance on the caller's bag.  order is the order in
\* which the bag's hash table holds the entries (deleting a key leaves the
\* others where they are), out what run_instances does.  The lookup of
\* instance_type is outside any try.
run_instance(bag, order, out) ==
    IF ~HasKey(bag, InstanceTypeKey)
    THEN [outcome |-> "raised", result |-> None, bag |-> bag, calls |-> <<>>,
          raised |-> {}, log |-> <<>>]
    ELSE LET instance_type == Lookup(bag, InstanceTypeKey)
             table == [i \in DOMAIN bag |-> bag[order[i]]]
             rest == Del(table, InstanceTypeKey)
             ud == JoinLines([i \in DOMAIN rest |-> FormatEntry(rest[i])])
             ret == IF out = Raises THEN None ELSE out
         IN [outcome |-> "returned", result |-> ret,
             bag |-> Del(bag, InstanceTypeKey),
             calls |-> <<CallRunInstances(instance_type, ud)>>,
             raised |-> IF out = Raises
                        THEN {CallRunInstances(instance_type, ud)} ELSE {},
             log |-> IF ret = None THEN <<"warning">>
                     ELSE IF instances(ret) = <<>> THEN <<"error">>
                     ELSE <<"info">>]

------------------------------------------------------------------------------
(* The state before any operation, and the operations *)

NoCall ==
    [op |-> "none", name |-> None, outcome |-> "none", result |-> None,
     calls |-> <<>>, raised |-> {}, present |-> FALSE, pre |-> <<>>,
     log |-> <<>>]

NoHist == [n |-> 0, fresh |-> FALSE, clean |-> FALSE, creates |-> 0, allret |-> FALSE]

\* hist after a call of op for name: the run goes on when the call before
\* was the same operation for the same name, and starts anew otherwise.
\* fresh: the run started without the resource; clean: no provider call of
\* the run raised; creates: the create requests of kind `create` the run
\* issued; allret: every call of the run returned the name.
NextHist(op, name, present, faulted, calls, create, named) ==
    LET b == IF last.op = op /\ last.name = name THEN hist
             ELSE [n |-> 0, fresh |-> ~present, clean |-> TRUE, creates |-> 0,
                   allret |-> TRUE]
    IN [n |-> Min(b.n + 1, MaxCalls),
        fresh |-> b.fresh,
        clean |-> b.clean /\ ~faulted,
        creates |-> Min(b.creates + CountCalls(calls, create), MaxCalls),
        allret |-> b.allret /\ named]

CreateIamUser(group_name, user_name, F) ==
    \E r \in {create_iam_user(iam, group_name, user_name, F)} :
    LET raised == Raised(r.calls, F)
    IN /\ iam' = r.iam
       /\ last' = [op |-> "create_iam_user", name |-> user_name,
                   outcome |-> r.outcome, result |-> r.result, calls |-> r.calls,
                   raised |-> raised, present |-> iam.keys[user_name] > 0,
                   pre |-> <<>>, log |-> <<>>]
       /\ hist' = NextHist("create_iam_user", user_name, iam.keys[user_name] > 0,
                           raised # {}, r.calls, "create_access_key",
                           r.outcome = "returned")
       /\ UNCHANGED <<secgroups, keypairs, user_provided_data>>

CreateCmSecurityGroup(sg_name, F) ==
    \E r \in {create_cm_security_group(secgroups, sg_name, F)} :
    LET raised == Raised(r.calls, F)
        present == FindSg(secgroups, sg_name) # 0
    IN /\ secgroups' = r.secgroups
       /\ last' = [op |-> "create_cm_security_group", name |-> sg_name,
                   outcome |-> r.outcome, result |-> r.result, calls |-> r.calls,
                   raised |-> raised, present |-> present,
                   pre |-> RulesOf(secgroups, sg_name), log |-> <<>>]
       /\ hist' = NextHist("create_cm_security_group", sg_name, present, raised # {},
                           r.calls, "create_security_group",
                           r.outcome = "returned" /\ r.result = sg_name)
       /\ UNCHANGED <<iam, keypairs, user_provided_data>>

CreateKeyPair(key_name, F) ==
    \E r \in {create_key_pair(keypairs, key_name, F)} :
    LET raised == Raised(r.calls, F)
        present == \E i \in DOMAIN keypairs : keypairs[i] = key_name
    IN /\ keypairs' = r.keypairs
       /\ last' = [op |-> "create_key_pair", name |-> key_name,
                   outcome |-> r.outcome, result |-> r.result, calls |-> r.calls,
                   raised |-> raised, present |-> present, pre |-> <<>>,
                   log |-> <<>>]
       /\ hist' = NextHist("create_key_pair", key_name, present, raised # {}, r.calls,
                           "create_key_pair",
                           r.outcome = "returned" /\ r.result = key_name)
       /\ UNCHANGED <<iam, secgroups, user_provided_data>>

RunInstance(bag, order, out) ==
    \E r \in {run_instance(bag, order, out)} :
       /\ user_provided_data' = r.bag
       /\ last' = [op |-> "run_instance", name |-> None,
                   outcome |-> r.outcome, result |-> r.result, calls |-> r.calls,
                   raised |-> r.raised, present |-> FALSE, pre |-> bag,
                   log |-> r.log]
       /\ hist' = NextHist("run_instance", None, FALSE, r.raised # {}, r.calls,
                           "run_instances", r.outcome = "returned")
       /\ UNCHANGED <<iam, secgroups, keypairs>>

------------------------------------------------------------------------------
(* Provider states the operations may start from *)

\* rules a group may hold before the first call, besides any of the five
\* port rules: a rule that lets its own instances in for ssh alone, and
\* port 80 open to one network only
RuleCandidates(sg_name) ==
    [k \in DOMAIN ports |-> PortRule(ports[k])] \o
    << [ip_protocol |-> "tcp", from_port |-> "22", to_port |-> "22",
        cidr_ip |-> None, name |-> sg_name],
       [ip_protocol |-> "tcp", from_port |-> "80", to_port |-> "80",
        cidr_ip |-> "10.0.0.0/8", name |-> None] >>

\* the group of the default name with some of the candidate rules, or none,
\* alone or listed after a group of another name
SgStates ==
    LET cands == RuleCandidates(SgNameDefault)
        mine == {<<>>} \cup
                { <<[name |-> SgNameDefault,
                     rules |-> SelectSeq(cands, LAMBDA r : r \in S)]>> :
                  S \in SUBSET Range(cands) }
        other == {<<>>} \cup
                 { <<[name |-> n, rules |-> <<>>]>> : n \in SgNames \ {SgNameDefault} }
    IN {b \o a : a \in mine, b \in other}

\* groups, users, memberships and policies that earlier calls may have left,
\* and up to KeyLimit keys for each user there is
IamStates ==
    {i \in [groups : {<<>>, <<GroupNameDefault>>},
            policies : {{}, {<<GroupNameDefault, GroupNameDefault \o "Policy", CM_POLICY>>}},
            users : {<<>>, <<UserNameDefault>>, <<"galaxy">>, <<UserNameDefault, "galaxy">>},
            members : SUBSET ({GroupNameDefault} \X UserNames),
            keys : [UserNames -> 0..KeyLimit]] :
        /\ i.groups = <<>> => i.policies = {} /\ i.members = {}
        /\ \A u \in UserNames :
              u \notin Range(i.users) =>
                  i.keys[u] = 0 /\ <<GroupNameDefault, u>> \notin i.members}

\* key pairs of distinct names, in any order
KpStates ==
    {k \in UNION {[1..n -> KeyNames] : n \in 0..Cardinality(KeyNames)} : IsInjective(k)}

\* a provider that holds a user, a security group and a key pair of other
\* names than the default ones
Populated ==
    /\ iam = [groups |-> <<GroupNameDefault>>,
              policies |-> {<<GroupNameDefault, GroupNameDefault \o "Policy", CM_POLICY>>},
              users |-> <<"galaxy">>,
              members |-> {<<GroupNameDefault, "galaxy">>},
              keys |-> [u \in UserNames |-> IF u = "galaxy" THEN 1 ELSE 0]]
    /\ secgroups = <<[name |-> "Other", rules |-> <<PortRule(ports[3])>>]>>
    /\ keypairs = <<"k2">>
    /\ user_provided_data = <<>>
    /\ last = NoCall
    /\ hist = NoHist

Fresh ==
    /\ iam = IamEmpty
    /\ secgroups = <<>>
    /\ keypairs = <<>>
    /\ user_provided_data = <<>>
    /\ last = NoCall
    /\ hist = NoHist

------------------------------------------------------------------------------
(* Specifications *)

\* every operation with its default names, from an empty provider or from
\* one that holds resources of other names
Init == Fresh \/ Populated

DefaultBags ==
    { << <<InstanceTypeKey, "m1.large">>, <<"cluster_name", "galaxy">> >>,
      << <<"cluster_name", "galaxy">> >> }

Next ==
    \/ \E F \in SingleFaults(IamFaultPoints(GroupNameDefault, UserNameDefault)) :
          CreateIamUser(GroupNameDefault, UserNameDefault, F)
    \/ \E F \in SingleFaults(SgFaultPoints(SgNameDefault)) :
          CreateCmSecurityGroup(SgNameDefault, F)
    \/ \E F \in SingleFaults(KpFaultPoints(KeyNameDefault)) :
          CreateKeyPair(KeyNameDefault, F)
    \/ \E bag \in DefaultBags, out \in RunOutcomes :
          \E order \in IterOrders(bag) : RunInstance(bag, order, out)

Spec == Init /\ [][Next]_vars

\* create_iam_user alone, from any IAM state
InitIAM ==
    /\ iam \in IamStates
    /\ secgroups = <<>>
    /\ keypairs = <<>>
    /\ user_provided_data = <<>>
    /\ last = NoCall
    /\ hist = NoHist

NextIAM ==
    \E g \in GroupNames, u \in UserNames :
        \E F \in SingleFaults(IamFaultPoints(g, u)) : CreateIamUser(g, u, F)

SpecIAM == InitIAM /\ [][NextIAM]_vars

\* create_cm_security_group alone, from any state of the security groups
InitSG ==
    /\ iam = IamEmpty
    /\ secgroups \in SgStates
    /\ keypairs = <<>>
    /\ user_provided_data = <<>>
    /\ last = NoCall
    /\ hist = NoHist

NextSG ==
    \E n \in {SgNameDefault} :
        \E F \in SgFaults(n) : CreateCmSecurityGroup(n, F)

SpecSG == InitSG /\ [][NextSG]_vars

\* create_key_pair alone, from any set of key pairs
InitKP ==
    /\ iam = IamEmpty
    /\ secgroups = <<>>
    /\ keypairs \in KpStates
    /\ user_provided_data = <<>>
    /\ last = NoCall
    /\ hist = NoHist

NextKP ==
    \E n \in KeyNames :
        \E F \in SingleFaults(KpFaultPoints(n)) : CreateKeyPair(n, F)

SpecKP == InitKP /\ [][NextKP]_vars

\* run_instance alone, on any property bag
InitRun == Fresh

NextRun ==
    \E bag \in Bags, out \in RunOutcomes :
        \E order \in IterOrders(bag) : RunInstance(bag, order, out)

SpecRun == InitRun /\ [][NextRun]_vars

------------------------------------------------------------------------------
(* Properties of create_cm_security_group, under SpecSG *)

SgCall == last.op = "create_cm_security_group"

\* the rules of the group the last call was for, as they are now
RulesNow == RulesOf(secgroups, last.name)

\* the target port rules a rule list lacks
MissingPorts(rules) == {k \in DOMAIN ports : PortRule(ports[k]) \notin Range(rules)}

\* a rule of the list has a grant that names the group
GroupGranted(rules, sg_name) == \E r \in Range(rules) : r.name = sg_name

\* the authorize calls of a call log for port rules
PortAuthorizes(calls) ==
    SelectSeq(calls, LAMBDA c : c[1] = "authorize" /\ c[2] = "tcp")

\* C1: a call of create_cm_security_group that follows a call for the same
\* name, no provider call of either raising, leaves the rules of the group as
\* the call before left them: it creates no group, issues no authorize call,
\* and no rule of the group appears twice.
C1_SecondCallChangesNothing ==
    (SgCall /\ hist.n >= 2 /\ hist.clean) =>
        /\ RulesNow = last.pre
        /\ CountCalls(last.calls, "create_security_group") = 0
        /\ CountCalls(last.calls, "authorize") = 0
        /\ IsInjective(RulesNow)

\* a second call in a row for a group the first call created
C1_Witness ==
    /\ SgCall /\ hist.n = 2 /\ hist.clean /\ hist.fresh
    /\ Len(RulesNow) = Len(ports) + 1

\* C3, as claimed: on an existing group that has four of the five port rules,
\* the call issues one authorize call in all, the one for the missing rule.
C3_ExactlyOneAuthorize ==
    (SgCall /\ last.present /\ last.outcome = "returned"
        /\ Cardinality(MissingPorts(last.pre)) = 1) =>
        /\ CountCalls(last.calls, "authorize") = 1
        /\ PortAuthorizes(last.calls) =
              <<CallAuthorizePort(ports[CHOOSE k \in MissingPorts(last.pre) : TRUE])>>

\* C3, amended: on an existing group that has four of the five port rules,
\* the call issues one authorize call for a port rule, the one for the
\* missing rule, and none for the four present; besides these it issues one
\* authorize call for the rule between the group's instances exactly when no
\* rule of the group has a grant that names the group.
C3_OnlyMissingPort ==
    (SgCall /\ last.present /\ last.outcome = "returned"
        /\ Cardinality(MissingPorts(last.pre)) = 1) =>
        /\ PortAuthorizes(last.calls) =
              <<CallAuthorizePort(ports[CHOOSE k \in MissingPorts(last.pre) : TRUE])>>
        /\ CountCalls(last.calls, "authorize") =
              1 + (IF GroupGranted(last.pre, last.name) THEN 0 ELSE 1)

\* four of five port rules and other rules besides: one authorize call
C3_Witness ==
    /\ SgCall /\ last.present /\ last.outcome = "returned"
    /\ Cardinality(MissingPorts(last.pre)) = 1
    /\ Len(last.pre) > Len(ports)
    /\ CountCalls(last.calls, "authorize") = 1

\* C6: when the authorize call for a port rule raises, the existence check is
\* still made for every later port rule, and the authorize call for every
\* later port rule and for the rule between the group's instances that the
\* group lacked; the call returns the group's name.
C6_LoopGoesOn ==
    \A k \in DOMAIN ports :
        (SgCall /\ CallAuthorizePort(ports[k]) \in last.raised) =>
            /\ \A j \in DOMAIN ports :
                  j > k =>
                     /\ CallRuleExists(ports[j]) \in Range(last.calls)
                     /\ j \in MissingPorts(last.pre) =>
                           CallAuthorizePort(ports[j]) \in Range(last.calls)
            /\ ~GroupGranted(last.pre, last.name) =>
                  CallAuthorizeGroup(last.name) \in Range(last.calls)
            /\ last.outcome = "returned"
            /\ last.result = last.name

\* the authorize call for the third port rule raised, the one for the fourth
\* was made
C6_Witness ==
    /\ SgCall
    /\ CallAuthorizePort(ports[3]) \in last.raised
    /\ CallAuthorizePort(ports[4]) \in Range(last.calls)
    /\ PortRule(ports[4]) \in Range(RulesNow)

\* C10, as claimed: when the call returns and no provider call raised, the
\* group has the five port rules and the rule between its instances.
C10_AllTargetRules ==
    (SgCall /\ last.outcome = "returned" /\ last.raised = {}) =>
        /\ MissingPorts(RulesNow) = {}
        /\ GroupRule(last.name) \in Range(RulesNow)

------------------------------------------------------------------------------
(* Properties of create_key_pair, under SpecKP *)

KpCall == last.op = "create_key_pair"

\* C2: of two calls of create_key_pair in a row for a name the provider had
\* no key pair of, the provider serving every call, both return the name and
\* the two together issue one create request: the second issues none.
C2_OneCreateForTwoCalls ==
    (KpCall /\ hist.n = 2 /\ hist.fresh /\ hist.clean) =>
        /\ hist.allret
        /\ last.result = last.name
        /\ hist.creates = 1
        /\ CountCalls(last.calls, "create_key_pair") = 0

\* the second of two such calls, the key pair now being the provider's
C2_Witness ==
    /\ KpCall /\ hist.n = 2 /\ hist.fresh /\ hist.clean
    /\ last.present
    /\ last.name \in Range(keypairs)

------------------------------------------------------------------------------
(* Properties of create_iam_user, under SpecIAM *)

IamCall_ == last.op = "create_iam_user"

\* C5: of the calls of create_iam_user in a row for a user who had no access
\* key, the provider refusing nothing but a key beyond the limit of
\* KeyLimit, the first KeyLimit return an access key id and a secret key,
\* and every later one returns (None, None); none raises.
C5_TwoKeysThenNone ==
    (IamCall_ /\ hist.fresh /\ hist.clean) =>
        /\ last.outcome = "returned"
        /\ hist.n <= KeyLimit => last.result[1] # None /\ last.result[2] # None
        /\ hist.n > KeyLimit => last.result = <<None, None>>

\* the third call in a row: the user holds KeyLimit keys and gets none
C5_Witness ==
    /\ IamCall_ /\ hist.fresh /\ hist.clean /\ hist.n = KeyLimit + 1
    /\ iam.keys[last.name] = KeyLimit
    /\ last.result = <<None, None>>

------------------------------------------------------------------------------
(* Properties of run_instance, under SpecRun *)

\* the last operation was run_instance and it made its request
RunRequest == last.op = "run_instance" /\ last.calls # <<>>

\* the entries of the bag passed in, but for instance_type, as inserted
OtherEntries == SelectSeq(last.pre, LAMBDA e : e[1] # InstanceTypeKey)

\* the 'key: value' lines of entries taken in the order p
LinesInOrder(entries, p) ==
    [i \in DOMAIN entries |-> entries[p[i]][1] \o ": " \o entries[p[i]][2]]

\* C7, as claimed: the user data of the request is one 'key: value' line for
\* each entry of the bag but instance_type, joined by newlines, in the order
\* of insertion; the instance type of the request is the bag's.
C7_InsertionOrder ==
    RunRequest =>
        /\ last.calls[1][2] = Lookup(last.pre, InstanceTypeKey)
        /\ last.calls[1][3] =
              JoinLines(LinesInOrder(OtherEntries, [i \in DOMAIN OtherEntries |-> i]))

\* C7, amended: the user data of the request is one 'key: value' line for
\* each entry of the bag but instance_type, joined by newlines, in the order
\* in which the bag iterates, which need not be the order of insertion; the
\* instance type of the request is the bag's.
C7_SomeOrder ==
    RunRequest =>
        /\ last.calls[1][2] = Lookup(last.pre, InstanceTypeKey)
        /\ \E p \in IterOrders(OtherEntries) :
              last.calls[1][3] = JoinLines(LinesInOrder(OtherEntries, p))

\* a request whose two lines are not in the order of insertion
C7_Witness ==
    /\ RunRequest
    /\ Len(OtherEntries) = 2
    /\ last.calls[1][3] = "password: secret\ncluster_name: galaxy"
    /\ last.pre[1][1] = "cluster_name"

\* C9, as claimed: run_instance returns None or a reservation that has an
\* instance, never a reservation without one.
C9_NoneOrUsable ==
    (last.op = "run_instance" /\ last.outcome = "returned") =>
        \/ last.result = None
        \/ instances(last.result) # <<>>

------------------------------------------------------------------------------
(* Properties of the operations together, under Spec *)

\* C4, as claimed: when a provider call of an operation raises, the operation
\* returns, and what it returns is None ((None, None) for create_iam_user).
C4_NoErrorEscapes ==
    last.raised # {} =>
        /\ last.outcome = "returned"
        /\ last.result = IF last.op = "create_iam_user" THEN <<None, None>> ELSE None

\* no two IAM groups, IAM users, security groups or key pairs of one name
OnePerName ==
    /\ IsInjective(iam.groups)
    /\ IsInjective(iam.users)
    /\ IsInjective([i \in DOMAIN secgroups |-> secgroups[i].name])
    /\ IsInjective(keypairs)

\* every security group is still there, with every rule it had
RulesKept ==
    \A i \in DOMAIN secgroups :
        \E j \in DOMAIN secgroups' :
            /\ secgroups'[j].name = secgroups[i].name
            /\ Range(secgroups[i].rules) \subseteq Range(secgroups'[j].rules)

\* C8: whatever calls of the operations were made, the provider has at most
\* one IAM group, one IAM user, one security group and one key pair of a
\* name, and no call takes a rule from a security group.
C8_OnePerNameRulesGrow == []OnePerName /\ [][RulesKept]_vars

\* each operation was called again on what it had made
C8_Witness ==
    /\ Len(iam.groups) = 1 /\ Len(iam.users) = 1
    /\ Len(secgroups) = 1 /\ Len(keypairs) = 1
    /\ Len(secgroups[1].rules) = Len(ports) + 1
    /\ hist.n >= 2

====
